---- MODULE Spec2Model ----
(***************************************************************************)
(* idlemail: the memory retry agent (src/retryagents/memory.rs), the IMAP  *)
(* connection facade (src/sources/common.rs) and the configuration loader  *)
(* (src/config.rs), each as a state machine of its own specification.      *)
(***************************************************************************)
EXTENDS Integers, Sequences, FiniteSets, TLC

\* ------------------------------------------------------------------ bounds
MaxTime == 4        \* the clock runs from 0 to MaxTime
MaxDelay == 1       \* config.delay is drawn from 0..MaxDelay
MaxMails == 3       \* QueueMail messages the destination workers send
MaxChan == 2        \* capacity of the retry agent's inbound channel
MaxSessions == 4    \* sessions the IMAP server lets one connection establish
MaxDsts == 2        \* length of the destination list of one mapping
MaxSignals == 3     \* signals raised while the observer is watched
MaxWaits == 2       \* waits of the observer that time out
MaxSeq == 2         \* message sequence numbers a search can match

DstNames == {"d1", "d2"}
SrcNames == {"s1", "s2"}

VARIABLES
    \* --- memory retry agent (memory.rs) ---
    clock,        \* SystemTime::now()
    delay,        \* config.delay
    connected,    \* some sender of the inbound channel is alive
    chan,         \* messages buffered in the inbound channel
    nextMail,     \* the next mail a destination worker hands over
    pc,           \* position of the worker thread
    queue,        \* VecDeque<(SystemTime, String, Mail)>
    now,          \* `now` of line 70
    i,            \* loop variable of line 71
    n,            \* queue.len() evaluated once for the range of line 71
    accepted,     \* history: QueueMail messages received, with the time
    emitted,      \* history: RetryMail notifications sent, with the time
    lost,         \* history: the entries still queued when the worker left
    stoppedAt,    \* history: the time at which the worker left its loop
    \* --- ImapConnection (common.rs) ---
    auth,         \* self.auth: "login" or "plain"
    session,      \* self.session: 0 is None, else the id of the cached session
    nextSid,      \* the id the next established session gets
    idleHandles,  \* sessions owned by IDLE handles idle() has returned
    conn,         \* "alive", or "panicked" once the owning thread has aborted
    runPc,        \* position of a call of run: "none", "loop", "returned"
    retry,        \* `retry` of line 89
    attempts,     \* history: the closure's results in the current call of run
    runResult,    \* what the call of run returned
    lastOp,       \* history: the last request other than run and its result
    observedLost, \* history: sessions on which ConnectionLost was observed
    ranOnLost,    \* history: a request ran on a session observed lost before
    net,          \* history: what the last call of session() did on the network
    dropLog,      \* history: what drop found cached and what it logged out
    \* --- UnseenMailIterator (common.rs) ---
    iterPc,       \* "none", "iterating", or "ended" once next() returned None
    matched,      \* history: the sequence numbers the search returned
    unread,       \* self.unread_mails
    yielded,      \* history: the items next() returned
    \* --- ConfigContainer (config.rs) ---
    cfgFile,      \* the file at the given path: "missing", "malformed", "parsed"
    cfg,          \* the ConfigContainer serde builds from the file
    pathExists,   \* Path::new(&config.path).exists()
    loadResult,   \* what from_file returned, "pending" before the call
    \* --- signal observer (main.rs) ---
    sigPending,   \* signals raised and not yet returned by trap.wait
    sigRaised,    \* number of signals raised so far
    obsPc,        \* position of the observer thread: "waiting" or "ended"
    timeouts,     \* waits that returned None
    handled,      \* history: the signals trap.wait returned
    stopCalls     \* number of calls of stop_token.stop()

retryVars == <<clock, delay, connected, chan, nextMail, pc, queue, now, i, n,
               accepted, emitted, lost, stoppedAt>>

imapVars == <<auth, session, nextSid, idleHandles, conn, runPc, retry, attempts,
              runResult, lastOp, observedLost, ranOnLost, net, dropLog>>

iterVars == <<iterPc, matched, unread, yielded>>

cfgVars == <<cfgFile, cfg, pathExists, loadResult>>

sigVars == <<sigPending, sigRaised, obsPc, timeouts, handled, stopCalls>>

vars == <<retryVars, imapVars, iterVars, cfgVars, sigVars>>

nonRetryVars == <<imapVars, iterVars, cfgVars, sigVars>>
nonImapVars == <<retryVars, iterVars, cfgVars, sigVars>>
nonCfgVars == <<retryVars, imapVars, iterVars, sigVars>>
nonSigVars == <<retryVars, imapVars, iterVars, cfgVars>>
nonImapIterVars == <<retryVars, cfgVars, sigVars>>

\* ------------------------------------------------- memory retry agent

\* line 59-60: SystemTime::now() + Duration::from_secs(config.delay)
RetransmissionTimepoint(t, d) == t + d

\* line 65: the tuple pushed to the queue
QueueEntry(t, msg) == <<t, msg.dstname, msg.mail>>

IsDueInverted(entry, t) == entry[1] > t

\* line 72: queue.get(i).unwrap().0 < now
IsDue(entry, t) == entry[1] < t

\* line 72: queue.get(i), the position the loop inspects (0-based i)
InspectedIndex(k) == k + 1

RetryMailOfInspected(q, k) == [dstname |-> q[k][2], mail |-> Head(q)[3]]

RetryMailOfInspectedEntry(q, k) == [dstname |-> q[k][2], mail |-> q[k][3]]

\* line 77-78: pop_front() and the RetryMail built from the popped tuple
\* (mail.1, mail.2); k is the position line 72 inspected
RetryMailOf(q, k) == [dstname |-> Head(q)[2], mail |-> Head(q)[3]]

\* ImapConnection::new (line 39-46), never used
ImapParked ==
    /\ auth = "login"
    /\ session = 0
    /\ nextSid = 1
    /\ idleHandles = {}
    /\ conn = "alive"
    /\ runPc = "none"
    /\ retry = 0
    /\ attempts = <<>>
    /\ runResult = "none"
    /\ lastOp = [op |-> "none", sid |-> 0, result |-> "none"]
    /\ observedLost = {}
    /\ ranOnLost = FALSE
    /\ net = "none"
    /\ dropLog = [called |-> FALSE, cached |-> 0, logout |-> 0]
    /\ iterPc = "none"
    /\ matched = {}
    /\ unread = <<>>
    /\ yielded = <<>>

\* MemoryRetryAgent::new (line 19-25), never started
RetryParked ==
    /\ clock = 0
    /\ delay = 0
    /\ connected = TRUE
    /\ chan = <<>>
    /\ nextMail = 1
    /\ pc = "recv"
    /\ queue = <<>>
    /\ now = 0
    /\ i = 0
    /\ n = 0
    /\ accepted = <<>>
    /\ emitted = <<>>
    /\ lost = <<>>
    /\ stoppedAt = 0

\* no configuration file is being loaded
ConfigParked ==
    /\ cfgFile = "missing"
    /\ cfg = [sources |-> {}, destinations |-> {}, mappings |-> <<>>,
              retryagent |-> "none"]
    /\ pathExists = FALSE
    /\ loadResult = "pending"

\* main.rs line 70-73: the trap is registered, no signal has been raised
SignalParked ==
    /\ sigPending = <<>>
    /\ sigRaised = 0
    /\ obsPc = "waiting"
    /\ timeouts = 0
    /\ handled = <<>>
    /\ stopCalls = 0

RetryInit ==
    /\ ImapParked
    /\ ConfigParked
    /\ SignalParked
    /\ clock = 0
    /\ delay \in 0..MaxDelay
    /\ connected = TRUE
    /\ chan = <<>>
    /\ nextMail = 1
    /\ pc = "recv"
    /\ queue = <<>>
    /\ now = 0
    /\ i = 0
    /\ n = 0
    /\ accepted = <<>>
    /\ emitted = <<>>
    /\ lost = <<>>
    /\ stoppedAt = 0

\* the clock advances
Tick ==
    /\ clock < MaxTime
    /\ clock' = clock + 1
    /\ UNCHANGED nonRetryVars
    /\ UNCHANGED <<delay, connected, chan, nextMail, pc, queue, now, i, n,
                   accepted, emitted, lost, stoppedAt>>

\* a destination worker sends QueueMail{dstname, mail}
SendQueueMail ==
    /\ connected
    /\ pc \notin {"done", "panicked"}
    /\ nextMail <= MaxMails
    /\ Len(chan) < MaxChan
    /\ \E d \in DstNames :
          chan' = Append(chan, [dstname |-> d, mail |-> nextMail])
    /\ nextMail' = nextMail + 1
    /\ UNCHANGED nonRetryVars
    /\ UNCHANGED <<clock, delay, connected, pc, queue, now, i, n,
                   accepted, emitted, lost, stoppedAt>>

\* every sender of the inbound channel is dropped
Disconnect ==
    /\ connected
    /\ connected' = FALSE
    /\ UNCHANGED nonRetryVars
    /\ UNCHANGED <<clock, delay, chan, nextMail, pc, queue, now, i, n,
                   accepted, emitted, lost, stoppedAt>>

\* line 46: Err(RecvTimeoutError::Timeout), then line 70-71
RecvTimeout ==
    /\ pc = "recv"
    /\ chan = <<>>
    /\ connected
    /\ pc' = "flush"
    /\ now' = clock
    /\ i' = 0
    /\ n' = Len(queue)
    /\ UNCHANGED nonRetryVars
    /\ UNCHANGED <<clock, delay, connected, chan, nextMail, queue,
                   accepted, emitted, lost, stoppedAt>>

RecvDisconnectedFlushes ==
    /\ pc = "recv"
    /\ chan = <<>>
    /\ ~connected
    /\ pc' = "flush"
    /\ now' = clock
    /\ i' = 0
    /\ n' = Len(queue)
    /\ UNCHANGED nonRetryVars
    /\ UNCHANGED <<clock, delay, connected, chan, nextMail, queue,
                   accepted, emitted, lost, stoppedAt>>

\* line 47-57 and 86: Err(RecvTimeoutError::Disconnected), break; the queue
\* is dropped with the closure
RecvDisconnected ==
    /\ pc = "recv"
    /\ chan = <<>>
    /\ ~connected
    /\ pc' = "done"
    /\ lost' = queue
    /\ stoppedAt' = clock
    /\ queue' = <<>>
    /\ UNCHANGED nonRetryVars
    /\ UNCHANGED <<clock, delay, connected, chan, nextMail, now, i, n,
                   accepted, emitted>>

RecvQueueMailPushFront ==
    /\ pc = "recv"
    /\ chan # <<>>
    /\ LET msg == Head(chan)
           tp == RetransmissionTimepoint(clock, delay)
       IN  /\ queue' = <<QueueEntry(tp, msg)>> \o queue
           /\ accepted' = Append(accepted,
                 [dstname |-> msg.dstname, mail |-> msg.mail, at |-> clock])
    /\ chan' = Tail(chan)
    /\ pc' = "queued"
    /\ UNCHANGED nonRetryVars
    /\ UNCHANGED <<clock, delay, connected, nextMail, now, i, n, emitted, lost, stoppedAt>>

\* line 58-66: Ok(QueueMail{dstname, mail})
RecvQueueMail ==
    /\ pc = "recv"
    /\ chan # <<>>
    /\ LET msg == Head(chan)
           tp == RetransmissionTimepoint(clock, delay)
       IN  /\ queue' = Append(queue, QueueEntry(tp, msg))
           /\ accepted' = Append(accepted,
                 [dstname |-> msg.dstname, mail |-> msg.mail, at |-> clock])
    /\ chan' = Tail(chan)
    /\ pc' = "queued"
    /\ UNCHANGED nonRetryVars
    /\ UNCHANGED <<clock, delay, connected, nextMail, now, i, n, emitted, lost, stoppedAt>>

\* line 70-71 after a QueueMail: the clock is read a second time
SampleNow ==
    /\ pc = "queued"
    /\ pc' = "flush"
    /\ now' = clock
    /\ i' = 0
    /\ n' = Len(queue)
    /\ UNCHANGED nonRetryVars
    /\ UNCHANGED <<clock, delay, connected, chan, nextMail, queue,
                   accepted, emitted, lost, stoppedAt>>

\* line 71: the range 0..n is exhausted
FlushEnd ==
    /\ pc = "flush"
    /\ i >= n
    /\ pc' = "recv"
    /\ UNCHANGED nonRetryVars
    /\ UNCHANGED <<clock, delay, connected, chan, nextMail, queue, now, i, n,
                   accepted, emitted, lost, stoppedAt>>

\* line 72: queue.get(i) is None, unwrap() panics; the thread unwinds
FlushPanic ==
    /\ pc = "flush"
    /\ i < n
    /\ InspectedIndex(i) > Len(queue)
    /\ pc' = "panicked"
    /\ lost' = queue
    /\ stoppedAt' = clock
    /\ queue' = <<>>
    /\ UNCHANGED nonRetryVars
    /\ UNCHANGED <<clock, delay, connected, chan, nextMail, now, i, n,
                   accepted, emitted>>

FlushEmitKeepsEntry ==
    /\ pc = "flush"
    /\ i < n
    /\ InspectedIndex(i) <= Len(queue)
    /\ IsDue(queue[InspectedIndex(i)], now)
    /\ LET rm == RetryMailOf(queue, InspectedIndex(i))
       IN  emitted' = Append(emitted,
               [dstname |-> rm.dstname, mail |-> rm.mail, at |-> clock])
    /\ i' = i + 1
    /\ UNCHANGED nonRetryVars
    /\ UNCHANGED <<clock, delay, connected, chan, nextMail, pc, queue, now, n,
                   accepted, lost, stoppedAt>>

\* line 72-78: the inspected entry is due: pop_front and notify_retry_mail
FlushEmit ==
    /\ pc = "flush"
    /\ i < n
    /\ InspectedIndex(i) <= Len(queue)
    /\ IsDue(queue[InspectedIndex(i)], now)
    /\ LET rm == RetryMailOf(queue, InspectedIndex(i))
       IN  emitted' = Append(emitted,
               [dstname |-> rm.dstname, mail |-> rm.mail, at |-> clock])
    /\ queue' = Tail(queue)
    /\ i' = i + 1
    /\ UNCHANGED nonRetryVars
    /\ UNCHANGED <<clock, delay, connected, chan, nextMail, pc, now, n,
                   accepted, lost, stoppedAt>>

\* line 79-83: the inspected entry is not due: break
FlushBreak ==
    /\ pc = "flush"
    /\ i < n
    /\ InspectedIndex(i) <= Len(queue)
    /\ ~IsDue(queue[InspectedIndex(i)], now)
    /\ pc' = "recv"
    /\ UNCHANGED nonRetryVars
    /\ UNCHANGED <<clock, delay, connected, chan, nextMail, queue, now, i, n,
                   accepted, emitted, lost, stoppedAt>>

Worker ==
    \/ RecvTimeout
    \/ RecvDisconnected
    \/ RecvQueueMail
    \/ SampleNow
    \/ FlushEnd
    \/ FlushPanic
    \/ FlushEmit
    \/ FlushBreak

RetryNext ==
    \/ Tick
    \/ SendQueueMail
    \/ Disconnect
    \/ RecvTimeout
    \/ RecvDisconnected
    \/ RecvQueueMail
    \/ SampleNow
    \/ FlushEnd
    \/ FlushPanic
    \/ FlushEmit
    \/ FlushBreak

RetrySpec == RetryInit /\ [][RetryNext]_vars

\* the worker thread keeps running and time keeps passing
RetryFairSpec == RetrySpec /\ WF_vars(Worker) /\ WF_vars(Tick)

\* ------------------------------------------------------- ImapConnection

RetryLimitReachedLate(r) == r > 3

\* line 100: retry >= 3
RetryLimitReached(r) == r >= 3

\* whether the server accepts one more connection
ConnectChoices == IF nextSid <= MaxSessions THEN BOOLEAN ELSE {FALSE}

\* the results a request on session sid can have: a session whose connection
\* was observed lost stays lost
Outcomes(sid) ==
    IF sid \in observedLost THEN {"lost"} ELSE {"ok", "lost", "other"}

\* line 57-77: session(); s is the cell, sid the id a new session gets, a the
\* auth method, connectOk and loginOk what the server answers
SessionCall(s, sid, a, connectOk, loginOk) ==
    IF s # 0 THEN [status |-> "ok", session |-> s, nextSid |-> sid]
    ELSE IF ~connectOk THEN [status |-> "err", session |-> 0, nextSid |-> sid]
    ELSE IF a = "plain" THEN [status |-> "panic", session |-> 0, nextSid |-> sid]
    ELSE IF ~loginOk THEN [status |-> "err", session |-> 0, nextSid |-> sid]
    ELSE [status |-> "ok", session |-> sid, nextSid |-> sid + 1]

\* line 58-70: what the same call of session() does on the network: nothing
\* when a session is cached, else connect (line 59) and, only for LOGIN,
\* authenticate (line 66)
SessionEffect(s, a, connectOk, loginOk) ==
    IF s # 0 THEN "cached"
    ELSE IF ~connectOk THEN "connectFailed"
    ELSE IF a = "plain" THEN "connected"
    ELSE IF ~loginOk THEN "loginFailed"
    ELSE "established"

\* line 96: self.session.replace(None) after ConnectionLost
DiscardSession(s) == 0

ImapInit ==
    /\ RetryParked
    /\ ConfigParked
    /\ SignalParked
    /\ auth \in {"login", "plain"}
    /\ session = 0
    /\ nextSid = 1
    /\ idleHandles = {}
    /\ conn = "alive"
    /\ runPc = "none"
    /\ retry = 0
    /\ attempts = <<>>
    /\ runResult = "none"
    /\ lastOp = [op |-> "none", sid |-> 0, result |-> "none"]
    /\ observedLost = {}
    /\ ranOnLost = FALSE
    /\ net = "none"
    /\ dropLog = [called |-> FALSE, cached |-> 0, logout |-> 0]
    /\ iterPc = "none"
    /\ matched = {}
    /\ unread = <<>>
    /\ yielded = <<>>

\* line 85-90: run is called
RunCall ==
    /\ conn = "alive"
    /\ runPc # "loop"
    /\ runPc' = "loop"
    /\ retry' = 0
    /\ attempts' = <<>>
    /\ runResult' = "none"
    /\ UNCHANGED nonImapVars
    /\ UNCHANGED <<auth, session, nextSid, idleHandles, conn, lastOp,
                   observedLost, ranOnLost, net, dropLog>>

\* line 91: self.session()? returns the error to the caller of run
RunSessionFails ==
    /\ conn = "alive"
    /\ runPc = "loop"
    /\ \E c \in ConnectChoices, l \in BOOLEAN :
          /\ SessionCall(session, nextSid, auth, c, l).status = "err"
          /\ net' = SessionEffect(session, auth, c, l)
    /\ runPc' = "returned"
    /\ runResult' = "SessionFailed"
    /\ UNCHANGED nonImapVars
    /\ UNCHANGED <<auth, session, nextSid, idleHandles, conn, retry, attempts,
                   lastOp, observedLost, ranOnLost, dropLog>>

\* line 91 and 61-64: self.session() reaches unimplemented!()
RunSessionPanics ==
    /\ conn = "alive"
    /\ runPc = "loop"
    /\ \E c \in ConnectChoices, l \in BOOLEAN :
          /\ SessionCall(session, nextSid, auth, c, l).status = "panic"
          /\ net' = SessionEffect(session, auth, c, l)
    /\ conn' = "panicked"
    /\ UNCHANGED nonImapVars
    /\ UNCHANGED <<auth, session, nextSid, idleHandles, runPc, retry, attempts,
                   runResult, lastOp, observedLost, ranOnLost, dropLog>>

\* line 91-93: the closure succeeds
RunClosureOk ==
    /\ conn = "alive"
    /\ runPc = "loop"
    /\ \E c \in ConnectChoices, l \in BOOLEAN :
          LET sc == SessionCall(session, nextSid, auth, c, l)
          IN  /\ sc.status = "ok"
              /\ "ok" \in Outcomes(sc.session)
              /\ session' = sc.session
              /\ nextSid' = sc.nextSid
              /\ net' = SessionEffect(session, auth, c, l)
    /\ attempts' = Append(attempts, "ok")
    /\ runPc' = "returned"
    /\ runResult' = "Ok"
    /\ UNCHANGED nonImapVars
    /\ UNCHANGED <<auth, idleHandles, conn, retry, lastOp, observedLost,
                   ranOnLost, dropLog>>

\* line 91 and 94-97: the closure fails with ConnectionLost
RunClosureConnectionLost ==
    /\ conn = "alive"
    /\ runPc = "loop"
    /\ \E c \in ConnectChoices, l \in BOOLEAN :
          LET sc == SessionCall(session, nextSid, auth, c, l)
          IN  /\ sc.status = "ok"
              /\ session' = DiscardSession(sc.session)
              /\ nextSid' = sc.nextSid
              /\ observedLost' = observedLost \cup {sc.session}
              /\ ranOnLost' = (ranOnLost \/ sc.session \in observedLost)
              /\ net' = SessionEffect(session, auth, c, l)
    /\ attempts' = Append(attempts, "lost")
    /\ UNCHANGED nonImapVars
    /\ UNCHANGED <<auth, idleHandles, conn, runPc, retry, runResult, lastOp,
                   dropLog>>

\* line 91 and 98-103: the closure fails with another error
RunClosureOther ==
    /\ conn = "alive"
    /\ runPc = "loop"
    /\ \E c \in ConnectChoices, l \in BOOLEAN :
          LET sc == SessionCall(session, nextSid, auth, c, l)
          IN  /\ sc.status = "ok"
              /\ "other" \in Outcomes(sc.session)
              /\ session' = sc.session
              /\ nextSid' = sc.nextSid
              /\ net' = SessionEffect(session, auth, c, l)
    /\ attempts' = Append(attempts, "other")
    /\ retry' = retry + 1
    /\ IF RetryLimitReached(retry + 1)
       THEN runPc' = "returned" /\ runResult' = "RequestFailed"
       ELSE UNCHANGED <<runPc, runResult>>
    /\ UNCHANGED nonImapVars
    /\ UNCHANGED <<auth, idleHandles, conn, lastOp, observedLost, ranOnLost,
                   dropLog>>

\* a request that goes to self.session()? directly and hands every error to
\* its caller with `?`: steps is the number of commands it sends
RequestCore(op, steps) ==
    /\ conn = "alive"
    /\ runPc # "loop"
    /\ \E c \in ConnectChoices, l \in BOOLEAN :
          LET sc == SessionCall(session, nextSid, auth, c, l)
          IN  \/ /\ sc.status = "panic"
                 /\ net' = SessionEffect(session, auth, c, l)
                 /\ conn' = "panicked"
                 /\ UNCHANGED <<session, nextSid, lastOp, observedLost, ranOnLost>>
              \/ /\ sc.status = "err"
                 /\ net' = SessionEffect(session, auth, c, l)
                 /\ lastOp' = [op |-> op, sid |-> 0, result |-> "SessionFailed"]
                 /\ UNCHANGED <<session, nextSid, conn, observedLost, ranOnLost>>
              \/ /\ sc.status = "ok"
                 /\ net' = SessionEffect(session, auth, c, l)
                 /\ \E o1, o2 \in Outcomes(sc.session) :
                       LET res == IF steps = 1 \/ o1 # "ok" THEN o1 ELSE o2
                       IN  /\ lastOp' = [op |-> op, sid |-> sc.session, result |-> res]
                           /\ observedLost' =
                                 IF res = "lost" THEN observedLost \cup {sc.session}
                                 ELSE observedLost
                 /\ session' = sc.session
                 /\ nextSid' = sc.nextSid
                 /\ ranOnLost' = (ranOnLost \/ sc.session \in observedLost)
                 /\ UNCHANGED conn
    /\ UNCHANGED <<auth, idleHandles, runPc, retry, attempts, runResult, dropLog>>

\* the same request made by a caller of the connection
Request(op, steps) ==
    /\ RequestCore(op, steps)
    /\ UNCHANGED nonImapVars

\* line 108-118
RecursiveMailboxList == Request("list", 1)

\* line 120-130
FetchMail == Request("fetch", 1)

\* line 132-156: STORE +FLAGS (\Deleted), then EXPUNGE
DeleteMails == Request("delete", 2)

\* line 191-196 with take_session, line 78-84
Idle ==
    /\ conn = "alive"
    /\ runPc # "loop"
    /\ \E c \in ConnectChoices, l \in BOOLEAN :
          LET sc == SessionCall(session, nextSid, auth, c, l)
          IN  \/ /\ sc.status = "panic"
                 /\ net' = SessionEffect(session, auth, c, l)
                 /\ conn' = "panicked"
                 /\ UNCHANGED <<session, nextSid, idleHandles, lastOp, observedLost,
                                ranOnLost>>
              \/ /\ sc.status = "err"
                 /\ net' = SessionEffect(session, auth, c, l)
                 /\ lastOp' = [op |-> "idle", sid |-> 0, result |-> "SessionFailed"]
                 /\ UNCHANGED <<session, nextSid, idleHandles, conn, observedLost,
                                ranOnLost>>
              \/ /\ sc.status = "ok"
                 /\ net' = SessionEffect(session, auth, c, l)
                 /\ \E o \in Outcomes(sc.session) :
                       /\ lastOp' = [op |-> "idle", sid |-> sc.session, result |-> o]
                       /\ idleHandles' =
                             IF o = "ok" THEN idleHandles \cup {sc.session}
                             ELSE idleHandles
                       /\ observedLost' =
                             IF o = "lost" THEN observedLost \cup {sc.session}
                             ELSE observedLost
                 /\ session' = 0
                 /\ nextSid' = sc.nextSid
                 /\ ranOnLost' = (ranOnLost \/ sc.session \in observedLost)
                 /\ UNCHANGED conn
    /\ UNCHANGED nonImapVars
    /\ UNCHANGED <<auth, runPc, retry, attempts, runResult, dropLog>>

\* the owner of an IDLE handle ends IDLE; the session it gets back is its own
IdleDone ==
    /\ conn = "alive"
    /\ \E h \in idleHandles : idleHandles' = idleHandles \ {h}
    /\ UNCHANGED nonImapVars
    /\ UNCHANGED <<auth, session, nextSid, conn, runPc, retry, attempts,
                   runResult, lastOp, observedLost, ranOnLost, net, dropLog>>

\* line 198-204: drop calls take_session (line 78-84), which calls session()
\* before it takes the cell's content, and logs the session it got out
Drop ==
    /\ conn = "alive"
    /\ runPc # "loop"
    /\ \E c \in ConnectChoices, l \in BOOLEAN :
          LET sc == SessionCall(session, nextSid, auth, c, l)
          IN  /\ net' = SessionEffect(session, auth, c, l)
              /\ nextSid' = sc.nextSid
              /\ conn' = IF sc.status = "panic" THEN "panicked" ELSE "dropped"
              /\ dropLog' = [called |-> TRUE, cached |-> session,
                             logout |-> IF sc.status = "ok" THEN sc.session ELSE 0]
    /\ session' = 0
    /\ UNCHANGED nonImapVars
    /\ UNCHANGED <<auth, idleHandles, runPc, retry, attempts, runResult, lastOp,
                   observedLost, ranOnLost>>

ImapNext ==
    \/ RunCall
    \/ RunSessionFails
    \/ RunSessionPanics
    \/ RunClosureOk
    \/ RunClosureConnectionLost
    \/ RunClosureOther
    \/ RecursiveMailboxList
    \/ FetchMail
    \/ DeleteMails
    \/ Idle
    \/ IdleDone
    \/ Drop

ImapSpec == ImapInit /\ [][ImapNext]_vars

\* ------------------------------------------------- UnseenMailIterator

\* the sequence numbers a mailbox can hold
Seqs == 1..MaxSeq

\* what next() yields for a fetch that ended with `result`: the body, or an
\* error when the fetch failed (line 127-129, 220) or the message has no body
\* (line 216-219)
ItemOf(result, hasBody) ==
    IF result = "ok" /\ hasBody THEN "body" ELSE "error"

\* line 176-189: iter_unseen; its call of run has returned the search result,
\* a set of sequence numbers that becomes the queue in some order
IterUnseen ==
    /\ conn = "alive"
    /\ iterPc = "none"
    /\ runPc = "returned"
    /\ runResult = "Ok"
    /\ runPc' = "none"
    /\ \E found \in SUBSET Seqs :
          /\ matched' = found
          /\ \E order \in [1..Cardinality(found) -> found] :
                /\ \A a, b \in 1..Cardinality(found) : order[a] = order[b] => a = b
                /\ unread' = order
    /\ yielded' = <<>>
    /\ iterPc' = "iterating"
    /\ UNCHANGED nonImapIterVars
    /\ UNCHANGED <<auth, session, nextSid, idleHandles, conn, retry, attempts,
                   runResult, lastOp, observedLost, ranOnLost, net, dropLog>>

UnseenMailIteratorNextStopsOnError ==
    /\ iterPc = "iterating"
    /\ unread # <<>>
    /\ RequestCore("fetch", 1)
    /\ unread' = IF lastOp'.result = "ok" THEN Tail(unread) ELSE <<>>
    /\ \E hasBody \in BOOLEAN :
          yielded' = IF conn' = "panicked" THEN yielded
                     ELSE Append(yielded, [seq |-> Head(unread),
                                           item |-> ItemOf(lastOp'.result, hasBody)])
    /\ UNCHANGED nonImapIterVars
    /\ UNCHANGED <<iterPc, matched>>

\* line 213-222: next() pops the front message and fetches it
UnseenMailIteratorNext ==
    /\ iterPc = "iterating"
    /\ unread # <<>>
    /\ RequestCore("fetch", 1)
    /\ unread' = Tail(unread)
    /\ \E hasBody \in BOOLEAN :
          yielded' = IF conn' = "panicked" THEN yielded
                     ELSE Append(yielded, [seq |-> Head(unread),
                                           item |-> ItemOf(lastOp'.result, hasBody)])
    /\ UNCHANGED nonImapIterVars
    /\ UNCHANGED <<iterPc, matched>>

\* line 214: pop_front() is None, next() returns None
UnseenMailIteratorEnd ==
    /\ conn = "alive"
    /\ iterPc = "iterating"
    /\ unread = <<>>
    /\ runPc # "loop"
    /\ iterPc' = "ended"
    /\ UNCHANGED nonImapIterVars
    /\ UNCHANGED imapVars
    /\ UNCHANGED <<matched, unread, yielded>>

IterNext ==
    \/ RunCall
    \/ RunSessionFails
    \/ RunSessionPanics
    \/ RunClosureOk
    \/ RunClosureConnectionLost
    \/ RunClosureOther
    \/ IterUnseen
    \/ UnseenMailIteratorNext
    \/ UnseenMailIteratorEnd

IterSpec == ImapInit /\ [][IterNext]_vars

\* ------------------------------------------------------ ConfigContainer

\* the orders in which a HashMap may hand out the keys S
Orders(S) ==
    {o \in [1..Cardinality(S) -> S] : \A a, b \in 1..Cardinality(S) : o[a] = o[b] => a = b}

\* Vec<String> of at most MaxDsts destination names
DstLists == UNION {[1..len -> DstNames] : len \in 0..MaxDsts}

\* HashMap<String, Vec<String>>
MappingTables == UNION {[S -> DstLists] : S \in SUBSET SrcNames}

Configs ==
    [sources : SUBSET SrcNames, destinations : SUBSET DstNames,
     mappings : MappingTables, retryagent : {"none", "memory", "filesystem"}]

FirstUnknownDestinationHeadOnly(dsts, k, destinations) ==
    IF dsts = <<>> THEN 0
    ELSE IF dsts[1] \notin destinations THEN 1
    ELSE 0

\* line 26-33: the position of the first destination name of dsts, from k on,
\* that is no key of destinations; 0 when there is none
RECURSIVE FirstUnknownDestination(_, _, _)
FirstUnknownDestination(dsts, k, destinations) ==
    IF k > Len(dsts) THEN 0
    ELSE IF dsts[k] \notin destinations THEN k
    ELSE FirstUnknownDestination(dsts, k + 1, destinations)

\* line 22-34: the loop over self.mappings, visited in `order` from k on
RECURSIVE ValidateMappings(_, _, _)
ValidateMappings(c, order, k) ==
    IF k > Len(order) THEN "Ok"
    ELSE IF order[k] \notin c.sources THEN "UnknownSource"
    ELSE IF FirstUnknownDestination(c.mappings[order[k]], 1, c.destinations) # 0
         THEN "UnknownDestination"
    ELSE ValidateMappings(c, order, k + 1)

\* line 35-39: the loop over self.sources, visited in `order` from k on
RECURSIVE ValidateSources(_, _, _)
ValidateSources(c, order, k) ==
    IF k > Len(order) THEN "Ok"
    ELSE IF order[k] \notin DOMAIN c.mappings THEN "NoMapping"
    ELSE ValidateSources(c, order, k + 1)

\* line 40-46: the path of a filesystem retry agent
ValidateRetryAgent(c, exists) ==
    IF c.retryagent = "filesystem" /\ ~exists THEN "PathMissing" ELSE "Ok"

\* line 21-48: validate, the two maps visited in the orders mo and so
Validate(c, mo, so, exists) ==
    IF ValidateMappings(c, mo, 1) # "Ok" THEN ValidateMappings(c, mo, 1)
    ELSE IF ValidateSources(c, so, 1) # "Ok" THEN ValidateSources(c, so, 1)
    ELSE ValidateRetryAgent(c, exists)

\* line 13-20: from_file
FromFile(file, c, mo, so, exists) ==
    IF file = "missing" THEN "OpenFailed"
    ELSE IF file = "malformed" THEN "ParseFailed"
    ELSE Validate(c, mo, so, exists)

ConfigInit ==
    /\ RetryParked
    /\ ImapParked
    /\ SignalParked
    /\ cfgFile \in {"missing", "malformed", "parsed"}
    /\ cfg \in Configs
    /\ cfgFile # "parsed" => cfg = [sources |-> {}, destinations |-> {},
                                    mappings |-> <<>>, retryagent |-> "none"]
    /\ pathExists \in BOOLEAN
    /\ (cfgFile # "parsed" \/ cfg.retryagent # "filesystem") => pathExists = FALSE
    /\ loadResult = "pending"

\* main.rs line 58: config::ConfigContainer::from_file(&config_file)
LoadConfig ==
    /\ loadResult = "pending"
    /\ \E mo \in Orders(DOMAIN cfg.mappings), so \in Orders(cfg.sources) :
          loadResult' = FromFile(cfgFile, cfg, mo, so, pathExists)
    /\ UNCHANGED nonCfgVars
    /\ UNCHANGED <<cfgFile, cfg, pathExists>>

ConfigNext ==
    \/ LoadConfig

ConfigSpec == ConfigInit /\ [][ConfigNext]_vars

\* ------------------------------------------------------ signal observer

\* the signals a process can be sent; SIGHUP stands for every signal other
\* than the two of line 75
Signals == {"SIGINT", "SIGTERM", "SIGHUP"}

IsTerminationSignalIntOnly(sig) == sig = "SIGINT"

\* main.rs line 75: Some(Signal::SIGINT) | Some(Signal::SIGTERM)
IsTerminationSignal(sig) == sig \in {"SIGINT", "SIGTERM"}

SignalInit ==
    /\ RetryParked
    /\ ImapParked
    /\ ConfigParked
    /\ SignalParked

\* a signal is sent to the process
RaiseSignal ==
    /\ sigRaised < MaxSignals
    /\ \E sig \in Signals : sigPending' = Append(sigPending, sig)
    /\ sigRaised' = sigRaised + 1
    /\ UNCHANGED nonSigVars
    /\ UNCHANGED <<obsPc, timeouts, handled, stopCalls>>

\* main.rs line 74 and 81: trap.wait returns None after 50 ms
WaitTimeout ==
    /\ obsPc = "waiting"
    /\ sigPending = <<>>
    /\ timeouts < MaxWaits
    /\ timeouts' = timeouts + 1
    /\ UNCHANGED nonSigVars
    /\ UNCHANGED <<sigPending, sigRaised, obsPc, handled, stopCalls>>

\* main.rs line 74-80: trap.wait returns SIGINT or SIGTERM: stop(), return
WaitTermination ==
    /\ obsPc = "waiting"
    /\ sigPending # <<>>
    /\ IsTerminationSignal(Head(sigPending))
    /\ sigPending' = Tail(sigPending)
    /\ handled' = Append(handled, Head(sigPending))
    /\ stopCalls' = stopCalls + 1
    /\ obsPc' = "ended"
    /\ UNCHANGED nonSigVars
    /\ UNCHANGED <<sigRaised, timeouts>>

\* main.rs line 74 and 81: trap.wait returns another signal: loop
WaitOther ==
    /\ obsPc = "waiting"
    /\ sigPending # <<>>
    /\ ~IsTerminationSignal(Head(sigPending))
    /\ sigPending' = Tail(sigPending)
    /\ handled' = Append(handled, Head(sigPending))
    /\ UNCHANGED nonSigVars
    /\ UNCHANGED <<sigRaised, obsPc, timeouts, stopCalls>>

SignalNext ==
    \/ RaiseSignal
    \/ WaitTimeout
    \/ WaitTermination
    \/ WaitOther

SignalSpec == SignalInit /\ [][SignalNext]_vars

\* ------------------------------------------- claims: memory retry agent

EmittedMails == {emitted[k].mail : k \in 1..Len(emitted)}

\* C1: a RetryMail is never emitted earlier than the time its QueueMail was
\* received plus the configured delay.
C1_NeverBeforeDelay ==
    \A k \in 1..Len(emitted) :
        \E a \in 1..Len(accepted) :
            /\ accepted[a].mail = emitted[k].mail
            /\ emitted[k].at >= accepted[a].at + delay

C1_Witness ==
    /\ delay >= 1
    /\ Len(emitted) >= 2
    /\ \E a \in 1..Len(accepted) :
          accepted[a].mail = emitted[2].mail /\ accepted[a].at >= 1

\* C2: when the worker goes back to waiting on its channel after a flush, no
\* entry whose retransmission time is earlier than the time sampled for that
\* flush remains in the queue.
C2_FlushEmitsAllDue ==
    pc = "recv" => \A k \in 1..Len(queue) : ~(queue[k][1] < now)

\* C3: every mail accepted through QueueMail is eventually handed back as a
\* RetryMail, as long as the inbound channel stays connected (mails whose
\* retransmission time lies beyond the modelled clock are left out).
C3_EveryMailRetried ==
    \A m \in 1..MaxMails :
        (\E a \in 1..Len(accepted) :
            accepted[a].mail = m /\ accepted[a].at + delay < MaxTime)
        ~> (m \in EmittedMails \/ ~connected)

\* C4: every RetryMail carries the destination name and the mail of one
\* received QueueMail, never the mail of one under the name of another.
C4_DestinationPreserved ==
    \A k \in 1..Len(emitted) :
        \E a \in 1..Len(accepted) :
            /\ accepted[a].mail = emitted[k].mail
            /\ accepted[a].dstname = emitted[k].dstname

C4_Witness ==
    /\ Len(emitted) >= 2
    /\ emitted[1].dstname # emitted[2].dstname
    /\ Len(queue) >= 1

\* C5: the step that observes the disconnected channel emits nothing, drops
\* the queue and leaves the loop, and nothing is emitted afterwards.
C5_DisconnectDiscards ==
    [][ /\ (pc = "recv" /\ chan = <<>> /\ ~connected /\ pc' # pc) => pc' = "done"
        /\ pc' = "done" => (emitted' = emitted /\ queue' = <<>>)
        /\ pc = "done" => pc' = "done" ]_vars

C5_Witness ==
    /\ pc = "done"
    /\ \E k \in 1..Len(lost) : lost[k][1] < stoppedAt
    /\ \E k \in 1..Len(lost) : ~(lost[k][1] < stoppedAt)
    /\ clock > stoppedAt

\* C14: RetryMails are emitted in the order in which their QueueMails were
\* received: the mails emitted so far are the first mails accepted, in order.
C14_FifoOrder ==
    /\ Len(emitted) <= Len(accepted)
    /\ \A k \in 1..Len(emitted) : emitted[k].mail = accepted[k].mail

C14_Witness ==
    /\ Len(emitted) >= 2
    /\ Len(accepted) >= 3
    /\ emitted[1].at < emitted[2].at

\* C15: the queue is ordered by non-decreasing retransmission time from head
\* to tail, so when the head is not due at some time no entry behind it is.
C15_QueueOrderedByDueTime ==
    /\ \A a, b \in 1..Len(queue) : a < b => queue[a][1] <= queue[b][1]
    /\ \A t \in 0..MaxTime :
          (queue # <<>> /\ ~IsDue(Head(queue), t)) =>
              \A k \in 1..Len(queue) : ~IsDue(queue[k], t)

C15_Witness ==
    /\ Len(queue) >= 2
    /\ queue[1][1] < queue[2][1]
    /\ Len(emitted) >= 1

\* C16: every position the flush loop inspects exists in the queue, so the
\* worker thread never aborts while flushing.
C16_FlushIndexInBounds ==
    /\ (pc = "flush" /\ i < n) => InspectedIndex(i) <= Len(queue)
    /\ pc # "panicked"

MailsOf(seq) == [k \in 1..Len(seq) |-> seq[k].mail]

QueuedMails == [k \in 1..Len(queue) |-> queue[k][3]]

\* C17: no mail is emitted twice, and while the worker runs every accepted
\* mail is either still queued or already emitted, never both and never
\* neither: accepted = emitted followed by queued.
C17_NoDuplicateNoLoss ==
    /\ \A a, b \in 1..Len(emitted) : emitted[a].mail = emitted[b].mail => a = b
    /\ pc \notin {"done", "panicked"} =>
          MailsOf(accepted) = MailsOf(emitted) \o QueuedMails

C17_Witness ==
    /\ pc = "flush"
    /\ Len(emitted) >= 1
    /\ Len(queue) >= 1
    /\ i >= 1

\* C18: the worker never terminates while its inbound channel is connected,
\* and once every sender is gone it eventually leaves its loop normally, so
\* that join() returns.
C18_TerminatesOnlyOnDisconnect ==
    /\ [](pc \in {"done", "panicked"} => ~connected)
    /\ (~connected ~> pc = "done")

\* ----------------------------------------------- claims: ImapConnection

CountOf(seq, x) == Cardinality({k \in 1..Len(seq) : seq[k] = x})

LiveSessions == (IF session # 0 THEN {session} ELSE {}) \cup idleHandles

C9_AtMostOneLiveSession ==
    /\ Cardinality(LiveSessions) <= 1
    /\ idleHandles # {} => session = 0

\* C10: a session on which any operation observed ConnectionLost is no longer
\* cached, and no later operation runs on it.
C10_LostSessionDiscarded ==
    /\ session # 0 => session \notin observedLost
    /\ ~ranOnLost

\* C11: drop logs out exactly the cached session; when none is cached it
\* opens no connection, authenticates nothing and logs nothing out, and it
\* always completes. Stated for LOGIN authentication, where session() cannot
\* abort the thread.
C11_DropOnlyLogsOutCached ==
    (dropLog.called /\ auth = "login") =>
        /\ conn = "dropped"
        /\ dropLog.logout = dropLog.cached
        /\ dropLog.cached = 0 =>
              net \notin {"connected", "loginFailed", "established"}

\* C12: with PLAIN authentication, establishing a session hands an error to
\* the caller without aborting the thread and without opening a connection.
C12_PlainFailsFast ==
    auth = "plain" => (conn # "panicked" /\ net # "connected")

\* C19: a call of run gives up by itself: no more attempts of one call end in
\* connection-lost than the three its retry limit allows for other errors.
C19_RunAttemptsBounded ==
    CountOf(attempts, "lost") <= 3

YieldedSeqs == {yielded[k].seq : k \in 1..Len(yielded)}

UnreadSeqs == {unread[k] : k \in 1..Len(unread)}

\* C20: the iterator yields one item per matched sequence number and none
\* twice, goes on after an item that is an error, and then ends: what it has
\* yielded and what it still holds are always the matched numbers, each once.
C20_IterUnseenSinglePass ==
    /\ \A a, b \in 1..Len(yielded) : yielded[a].seq = yielded[b].seq => a = b
    /\ iterPc # "none" =>
          /\ YieldedSeqs \cup UnreadSeqs = matched
          /\ Len(yielded) + Len(unread) = Cardinality(matched)
    /\ (iterPc = "ended" /\ conn = "alive") =>
          (unread = <<>> /\ YieldedSeqs = matched)

C20_Witness ==
    /\ iterPc = "ended"
    /\ Len(yielded) = 2
    /\ yielded[1].item = "error"
    /\ yielded[2].item = "body"
    /\ yielded[1].seq > yielded[2].seq

\* ---------------------------------------------- claims: ConfigContainer

MappedSourcesExist == DOMAIN cfg.mappings \subseteq cfg.sources

MappedDestinationsExist ==
    \A src \in DOMAIN cfg.mappings :
        \A k \in 1..Len(cfg.mappings[src]) :
            cfg.mappings[src][k] \in cfg.destinations

SourcesAreMapped == cfg.sources \subseteq DOMAIN cfg.mappings

RetryPathExists == cfg.retryagent = "filesystem" => pathExists

\* C7: loading a parsed configuration succeeds exactly when every source and
\* destination named in mappings exists, every source is a key of mappings
\* and the path of a filesystem retry agent exists; otherwise it is an error.
C7_ValidationRules ==
    (loadResult # "pending" /\ cfgFile = "parsed") =>
        /\ loadResult = "Ok" <=>
              (/\ MappedSourcesExist
               /\ MappedDestinationsExist
               /\ SourcesAreMapped
               /\ RetryPathExists)
        /\ loadResult \in {"Ok", "UnknownSource", "UnknownDestination",
                           "NoMapping", "PathMissing"}

C7_Witness ==
    /\ loadResult = "UnknownDestination"
    /\ cfg.sources = SrcNames
    /\ DOMAIN cfg.mappings = SrcNames
    /\ \E src \in SrcNames :
          /\ Len(cfg.mappings[src]) = 2
          /\ cfg.mappings[src][1] \in cfg.destinations
          /\ cfg.mappings[src][2] \notin cfg.destinations
    /\ \E src \in SrcNames :
          \A k \in 1..Len(cfg.mappings[src]) : cfg.mappings[src][k] \in cfg.destinations

\* C8: in every accepted configuration each source maps to a non-empty list
\* of destination names.
C8_MappingsNonEmpty ==
    loadResult = "Ok" => \A src \in cfg.sources : cfg.mappings[src] # <<>>

\* ---------------------------------------------- claims: signal observer

\* C13: stop() is called exactly once, by the wait that returns the first
\* SIGINT or SIGTERM, after which the observer has ended; waits that time out
\* or return another signal leave the stop token alone.
C13_StopOnFirstTermination ==
    /\ stopCalls <= 1
    /\ (stopCalls = 1) <=>
          (\E k \in 1..Len(handled) : handled[k] \in {"SIGINT", "SIGTERM"})
    /\ (obsPc = "ended") <=> (stopCalls = 1)
    /\ \A k \in 1..Len(handled) :
          handled[k] \in {"SIGINT", "SIGTERM"} => k = Len(handled)

C13_Witness ==
    /\ obsPc = "ended"
    /\ stopCalls = 1
    /\ timeouts >= 1
    /\ Len(handled) = 2
    /\ handled[2] = "SIGTERM"
    /\ sigPending = <<"SIGINT">>

====
